---- MODULE Spec2Model ----
(***************************************************************************)
(* A model of the vine balanced-ternary toolchain: the two-pass assembler  *)
(* (src/core/asm/assemble.ts) and the flat memory (src/core/vm/Memory.ts). *)
(*                                                                         *)
(* Source text is modelled character by character: a string is a sequence  *)
(* of one-character strings, a Tryte is a sequence of nine trits in        *)
(* {-1, 0, 1}, most significant first.  null is the empty sequence.        *)
(* The numeral codec (ALU.js) and the instruction codec (Instruction.js)   *)
(* are not part of the sources at hand; they are modelled from the         *)
(* written specification of the system.                                    *)
(***************************************************************************)
EXTENDS Integers, Sequences, FiniteSets, TLC

(***************************************************************************)
(* Bounds of the model.                                                    *)
(***************************************************************************)
MaxLines == 3

(***************************************************************************)
(* Numeral codec (ALU.js: s2t, t2n, n2t, clone, ALU.add).                  *)
(***************************************************************************)
TRYTE_MAX == 9841
TRYTE_NUM_VALUES == 19683

Null == <<>>

RECURSIVE intToDigits(_, _)
intToDigits(n, k) ==
  IF k = 0 THEN <<>>
  ELSE LET d == ((n + 1) % 3) - 1
       IN  intToDigits((n - d) \div 3, k - 1) \o <<d>>

\* n2t: the 9-trit word whose value is n, for n in [-9841, 9841]
n2t(n) == intToDigits(n, 9)

RECURSIVE digitsToInt(_)
digitsToInt(t) ==
  IF t = <<>> THEN 0
  ELSE 3 * digitsToInt(SubSeq(t, 1, Len(t) - 1)) + t[Len(t)]

\* A value of type `Tryte | number`
Num(n) == [k |-> "number", n |-> n, t |-> Null]
Tr(t) == [k |-> "tryte", n |-> 0, t |-> t]

\* t2n: the integer value of a word; a number is passed through
t2n(a) == IF a.k = "number" THEN a.n ELSE digitsToInt(a.t)

TritOfChar(c) == IF c = "-" THEN -1 ELSE IF c = "o" THEN 0 ELSE 1

\* s2t: parses a 9-character sign string; Null stands for the thrown FormatError
s2t(s) ==
  IF Len(s) = 9 /\ \A j \in 1..Len(s) : s[j] \in {"-", "o", "+"}
  THEN [j \in 1..9 |-> TritOfChar(s[j])]
  ELSE Null

\* clone: a fresh word with the same trits
clone(t) == [j \in 1..Len(t) |-> t[j]]

\* ALU.add: balanced-ternary addition into the accumulator, wrapping at +-9841
add(acc, operand) ==
  n2t(((digitsToInt(acc) + digitsToInt(operand) + TRYTE_MAX) % TRYTE_NUM_VALUES)
      - TRYTE_MAX)

(***************************************************************************)
(* String helpers of the JavaScript runtime used by the assembler.         *)
(***************************************************************************)
LowerLetters == <<"a", "b", "c", "d", "e", "f", "g", "h", "i", "j", "k", "l",
                  "m", "n", "o", "p", "q", "r", "s", "t", "u", "v", "w", "x",
                  "y", "z">>
UpperLetters == <<"A", "B", "C", "D", "E", "F", "G", "H", "I", "J", "K", "L",
                  "M", "N", "O", "P", "Q", "R", "S", "T", "U", "V", "W", "X",
                  "Y", "Z">>

IndexOf(c, letters) ==
  IF \E j \in 1..Len(letters) : letters[j] = c
  THEN CHOOSE j \in 1..Len(letters) : letters[j] = c
  ELSE 0

toUpperCase(s) ==
  [j \in 1..Len(s) |->
     IF IndexOf(s[j], LowerLetters) = 0 THEN s[j]
     ELSE UpperLetters[IndexOf(s[j], LowerLetters)]]

toLowerCase(s) ==
  [j \in 1..Len(s) |->
     IF IndexOf(s[j], UpperLetters) = 0 THEN s[j]
     ELSE LowerLetters[IndexOf(s[j], UpperLetters)]]

RECURSIVE trimStart(_)
trimStart(s) ==
  IF s # <<>> /\ Head(s) = " " THEN trimStart(Tail(s)) ELSE s

RECURSIVE trimEnd(_)
trimEnd(s) ==
  IF s # <<>> /\ s[Len(s)] = " " THEN trimEnd(SubSeq(s, 1, Len(s) - 1)) ELSE s

trim(s) == trimEnd(trimStart(s))

\* line.replace(/;.*$/, ''): drops everything from the first semicolon on
RECURSIVE stripComment(_)
stripComment(s) ==
  IF s = <<>> \/ Head(s) = ";" THEN <<>>
  ELSE <<Head(s)>> \o stripComment(Tail(s))

substr1(s) == SubSeq(s, 2, Len(s))

(***************************************************************************)
(* Operand values.  `string | null | undefined`: def is FALSE for the      *)
(* undefined that Array.shift returns on an empty array.                   *)
(***************************************************************************)
Undefined == [def |-> FALSE, s |-> <<>>]
Str(s) == [def |-> TRUE, s |-> s]

\* !operand : undefined and the empty string are falsy
Falsy(operand) == ~operand.def \/ operand.s = <<>>

\* operands.shift()
shift(operands) ==
  IF operands = <<>> THEN [val |-> Undefined, rest |-> <<>>]
  ELSE [val |-> Str(Head(operands)), rest |-> Tail(operands)]

(***************************************************************************)
(* Instructions.  z is `Tryte | string | null`.                            *)
(***************************************************************************)
ZNull == [t |-> "null", tryte |-> Null, name |-> <<>>]
ZTryte(w) == [t |-> "tryte", tryte |-> w, name |-> <<>>]
ZLabel(n) == [t |-> "label", tryte |-> Null, name |-> n]

\* JavaScript truthiness of a `Tryte | string | null`: an array is truthy,
\* a string is truthy unless empty
Truthy(z) == z.t = "tryte" \/ (z.t = "label" /\ z.name # <<>>)

REGISTER_REGISTER == "REGISTER_REGISTER"
SHORT_IMMEDIATE == "SHORT_IMMEDIATE"
WORD_IMMEDIATE == "WORD_IMMEDIATE"

NoInstruction ==
  [opcode |-> Null, addressingMode |-> "null", x |-> Null, y |-> Null, z |-> ZNull]

(***************************************************************************)
(* assemble.ts: tokenizer and operand parsers.                             *)
(***************************************************************************)
RECURSIVE partsLoop(_, _, _)
partsLoop(chars, operands, buffer) ==
  IF chars = <<>>
  THEN IF Len(buffer) > 0 THEN Append(operands, buffer) ELSE operands
  ELSE LET char == Head(chars)
       IN  IF Len(operands) = 0
           THEN IF char = " "
                THEN partsLoop(Tail(chars), Append(operands, buffer), <<>>)
                ELSE partsLoop(Tail(chars), operands, Append(buffer, char))
           ELSE IF char = ","
                THEN partsLoop(Tail(chars), Append(operands, buffer), <<>>)
                ELSE partsLoop(Tail(chars), operands, Append(buffer, char))

parseInstructionParts(line) == partsLoop(line, <<>>, <<>>)

parseRegisterOperand(operand) ==
  IF Falsy(operand) THEN Null
  ELSE LET trimmed == toLowerCase(trim(operand.s))
       IN  CASE trimmed = <<"r", "0">> -> n2t(-4)
             [] trimmed = <<"r", "1">> -> n2t(-3)
             [] trimmed = <<"r", "2">> -> n2t(-2)
             [] trimmed = <<"r", "3">> -> n2t(-1)
             [] trimmed = <<"r", "4">> -> n2t(0)
             [] trimmed = <<"r", "5">> -> n2t(1)
             [] trimmed = <<"r", "6">> -> n2t(2)
             [] trimmed = <<"r", "a">> -> n2t(3)
             [] trimmed = <<"s", "p">> -> n2t(4)
             [] OTHER -> Null

parseImmediateOperand(operand) ==
  IF Falsy(operand) THEN Null ELSE s2t(trim(operand.s))

\* A label operand that keeps its dot
parseAddressOperandKeepDot(operand) ==
  IF Falsy(operand) THEN ZNull
  ELSE LET trimmed == trim(operand.s)
       IN  IF trimmed # <<>> /\ trimmed[1] = "."
           THEN ZLabel(trimmed)
           ELSE IF s2t(trimmed) = Null THEN ZNull ELSE ZTryte(s2t(trimmed))

parseAddressOperand(operand) ==
  IF Falsy(operand) THEN ZNull
  ELSE LET trimmed == trim(operand.s)
       IN  IF trimmed # <<>> /\ trimmed[1] = "."
           THEN ZLabel(substr1(trimmed))
           ELSE IF s2t(trimmed) = Null THEN ZNull ELSE ZTryte(s2t(trimmed))

isShort(value) ==
  LET n == t2n(Tr(value))
  IN  n > 4 /\ n < -4

\* unionParseYZ without the options.allowLabel test of line 293
unionParseYZAnyLabel(partial, operand, allowLabel) ==
  LET asRegister == parseRegisterOperand(operand)
      asImmediate == parseImmediateOperand(operand)
      asAddress == parseAddressOperand(operand)
  IN  IF asRegister # Null
      THEN [opcode |-> partial.opcode, x |-> partial.x,
            addressingMode |-> REGISTER_REGISTER, y |-> asRegister, z |-> ZNull]
      ELSE IF asImmediate # Null
      THEN [opcode |-> partial.opcode, x |-> partial.x,
            addressingMode |-> WORD_IMMEDIATE, y |-> n2t(0),
            z |-> ZTryte(asImmediate)]
      ELSE IF Truthy(asAddress)
      THEN [opcode |-> partial.opcode, x |-> partial.x,
            addressingMode |-> WORD_IMMEDIATE, y |-> n2t(0), z |-> asAddress]
      ELSE NoInstruction

unionParseYZ(partial, operand, allowLabel) ==
  LET asRegister == parseRegisterOperand(operand)
      asImmediate == parseImmediateOperand(operand)
      asAddress == parseAddressOperand(operand)
  IN  IF asRegister # Null
      THEN [opcode |-> partial.opcode, x |-> partial.x,
            addressingMode |-> REGISTER_REGISTER, y |-> asRegister, z |-> ZNull]
      ELSE IF asImmediate # Null
      THEN IF isShort(asImmediate)
           THEN [opcode |-> partial.opcode, x |-> partial.x,
                 addressingMode |-> SHORT_IMMEDIATE, y |-> asImmediate, z |-> ZNull]
           ELSE [opcode |-> partial.opcode, x |-> partial.x,
                 addressingMode |-> WORD_IMMEDIATE, y |-> n2t(0),
                 z |-> ZTryte(asImmediate)]
      ELSE IF allowLabel /\ Truthy(asAddress)
      THEN [opcode |-> partial.opcode, x |-> partial.x,
            addressingMode |-> WORD_IMMEDIATE, y |-> n2t(0), z |-> asAddress]
      ELSE NoInstruction

(***************************************************************************)
(* parseInstruction.  The result carries the operands left after the       *)
(* shifts (the function mutates its argument) or the thrown error.         *)
(***************************************************************************)
Parsed(ins, operands) == [ok |-> TRUE, err |-> "", ins |-> ins, operands |-> operands]
Thrown(err) == [ok |-> FALSE, err |-> err, ins |-> NoInstruction, operands |-> <<>>]

\* The body shared by the cases whose first operand is a register:
\*   expect(unionParseYZ({opcode, x: expect(parseRegisterOperand(shift), err1)},
\*                       shift), err2)
\* parseRegisterFirst with the outer expect evaluated before the inner one
parseRegisterFirstOuterFirst(opcode, operands, err1, err2) ==
  LET first == shift(operands)
      x == parseRegisterOperand(first.val)
      second == shift(first.rest)
      ins == unionParseYZ([opcode |-> opcode, x |-> x], second.val, FALSE)
  IN  IF ins = NoInstruction THEN Thrown(err2)
      ELSE IF x = Null THEN Thrown(err1)
      ELSE Parsed(ins, second.rest)

parseRegisterFirst(opcode, operands, err1, err2) ==
  LET first == shift(operands)
      x == parseRegisterOperand(first.val)
      second == shift(first.rest)
      ins == unionParseYZ([opcode |-> opcode, x |-> x], second.val, FALSE)
  IN  IF x = Null THEN Thrown(err1)
      ELSE IF ins = NoInstruction THEN Thrown(err2)
      ELSE Parsed(ins, second.rest)

MnemonicOpcode(mnemonic) ==
  CASE mnemonic = <<"N", "O", "P">> -> 0
    [] mnemonic = <<"M", "O", "V">> -> 0
    [] mnemonic = <<"A", "D", "D">> -> -39
    [] mnemonic = <<"M", "U", "L">> -> -37
    [] mnemonic = <<"D", "I", "V">> -> -36
    [] mnemonic = <<"S", "T", "A">> -> 2
    [] mnemonic = <<"L", "D", "A">> -> 1
    [] mnemonic = <<"J", "M", "P">> -> 36

parseInstruction(mnemonic, operands) ==
  LET m == toUpperCase(mnemonic)
  IN  CASE m = <<"N", "O", "P">> ->
             Parsed([opcode |-> n2t(MnemonicOpcode(m)),
                     addressingMode |-> REGISTER_REGISTER,
                     x |-> n2t(0), y |-> n2t(0), z |-> ZNull], operands)
        [] m = <<"M", "O", "V">> ->
             parseRegisterFirst(n2t(MnemonicOpcode(m)), operands,
               "MOV: operand 1 (destination) must be a register",
               "MOV: operand 2 (source) must be a register or immediate")
        [] m = <<"A", "D", "D">> ->
             parseRegisterFirst(n2t(MnemonicOpcode(m)), operands,
               "ADD: operand 1 must be a register",
               "ADD: operand 2 must be a register or immediate")
        [] m = <<"M", "U", "L">> ->
             parseRegisterFirst(n2t(MnemonicOpcode(m)), operands,
               "MUL: operand 1 must be a register",
               "MUL: operand 2 must be a register or immediate")
        [] m = <<"D", "I", "V">> ->
             parseRegisterFirst(n2t(MnemonicOpcode(m)), operands,
               "DIV: operand 1 must be a register",
               "DIV: operand 2 must be a register or immediate")
        [] m = <<"S", "T", "A">> ->
             parseRegisterFirst(n2t(MnemonicOpcode(m)), operands,
               "STA: operand 1 must be a register",
               "STA: operand 2 must be a register or address")
        [] m = <<"L", "D", "A">> ->
             parseRegisterFirst(n2t(MnemonicOpcode(m)), operands,
               "LDA: operand 1 must be a register",
               "LDA: operand 2 must be a register or address")
        [] m = <<"J", "M", "P">> ->
             LET only == shift(operands)
                 ins == unionParseYZ([opcode |-> n2t(MnemonicOpcode(m)), x |-> n2t(0)],
                                     only.val, TRUE)
             IN  IF ins = NoInstruction
                 THEN Thrown("JMP: operand must be a register or immediate address")
                 ELSE Parsed(ins, only.rest)
        [] OTHER -> Thrown("unknown operation")

(***************************************************************************)
(* Memory.ts.  block is the Int32Array of TRYTE_NUM_VALUES zero-initialised *)
(* cells, kept as the function from the indices of its non-zero cells to   *)
(* their values.                                                           *)
(***************************************************************************)
MEMORY_OFFSET == 9841

NewMemory == [idx \in {} |-> 0]

InBounds(idx) == idx \in 0..(TRYTE_NUM_VALUES - 1)

\* this.block[idx] ; reading outside the array yields undefined (def FALSE)
BlockGet(block, idx) ==
  IF ~InBounds(idx) THEN [def |-> FALSE, n |-> 0]
  ELSE IF idx \in DOMAIN block THEN [def |-> TRUE, n |-> block[idx]]
  ELSE [def |-> TRUE, n |-> 0]

\* this.block[idx] = v ; a write outside a typed array is silently ignored
BlockSet(block, idx, v) ==
  IF ~InBounds(idx) THEN block
  ELSE IF v # 0 THEN (idx :> v) @@ block
  ELSE IF idx \notin DOMAIN block THEN block
  ELSE [j \in DOMAIN block \ {idx} |-> block[j]]

LoadIndex(addr) == t2n(addr) + MEMORY_OFFSET

\* load: ok is FALSE when n2t rejects what the cell read gave (RangeError)
load(block, addr) ==
  LET cell == BlockGet(block, LoadIndex(addr))
  IN  IF cell.def /\ cell.n \in (-TRYTE_MAX)..TRYTE_MAX
      THEN [ok |-> TRUE, word |-> n2t(cell.n)]
      ELSE [ok |-> FALSE, word |-> Null]

\* A store whose index is one too low
StoreIndexOffByOne(addr) == t2n(addr) + MEMORY_OFFSET - 1

StoreIndex(addr) == t2n(addr) + MEMORY_OFFSET

store(block, value, addr) ==
  LET addrNumber == StoreIndex(addr)
      valueNumber == t2n(value)
  IN  BlockSet(block, addrNumber, valueNumber)

(***************************************************************************)
(* Instruction.js: assembleInstruction (the instruction codec's encode).   *)
(* The first word packs opcode (4 trits), addressing mode (1 trit), x and  *)
(* y (2 trits each); the second word, present under WORD_IMMEDIATE only,   *)
(* is the immediate or the address the label table binds.                  *)
(***************************************************************************)
ModeTrit(mode) ==
  CASE mode = REGISTER_REGISTER -> -1
    [] mode = SHORT_IMMEDIATE -> 0
    [] mode = WORD_IMMEDIATE -> 1

SelectorInRange(w) == digitsToInt(w) \in (-4)..4

assembleInstruction(instruction, labelTable) ==
  LET first == SubSeq(instruction.opcode, 6, 9)
                 \o <<ModeTrit(instruction.addressingMode)>>
                 \o SubSeq(instruction.x, 8, 9) \o SubSeq(instruction.y, 8, 9)
  IN  IF ~SelectorInRange(instruction.x) \/ ~SelectorInRange(instruction.y)
      THEN [ok |-> FALSE, err |-> "EncodeError", data0 |-> Null, data1 |-> Null]
      ELSE IF instruction.z.t = "label" /\ instruction.z.name \notin DOMAIN labelTable
      THEN [ok |-> FALSE, err |-> "UndeclaredLabelError", data0 |-> Null, data1 |-> Null]
      ELSE [ok |-> TRUE, err |-> "", data0 |-> first,
            data1 |-> CASE instruction.z.t = "label" -> labelTable[instruction.z.name]
                        [] instruction.z.t = "tryte" -> instruction.z.tryte
                        [] OTHER -> Null]

(***************************************************************************)
(* Source lines the programs of the model are made of.                     *)
(***************************************************************************)
Pool ==
  <<
     \* 1: 'NOP'
     <<"N", "O", "P">>,
     \* 2: 'MOV r0, r1'
     <<"M", "O", "V", " ", "r", "0", ",", " ", "r", "1">>,
     \* 3: 'add R1, oooooo+-- ; five'
     <<"a", "d", "d", " ", "R", "1", ",", " ", "o", "o", "o", "o", "o",
       "o", "+", "-", "-", " ", ";", " ", "f", "i", "v", "e">>,
     \* 4: '.a'
     <<".", "a">>,
     \* 5: 'JMP .a'
     <<"J", "M", "P", " ", ".", "a">>,
     \* 6: '  .b'
     <<" ", " ", ".", "b">>,
     \* 7: 'jmp .b'
     <<"j", "m", "p", " ", ".", "b">>,
     \* 8: ''
     <<>>,
     \* 9: 'FOO r0, r1'
     <<"F", "O", "O", " ", "r", "0", ",", " ", "r", "1">>,
     \* 10: 'MOV r0, ooooooo++'
     <<"M", "O", "V", " ", "r", "0", ",", " ", "o", "o", "o", "o", "o",
       "o", "o", "+", "+">>
  >>

OperandPool ==
  <<
     \* 1: 'NOP'
     <<"N", "O", "P">>,
     \* 2: 'NOP r0'
     <<"N", "O", "P", " ", "r", "0">>,
     \* 3: 'MOV r0, r1'
     <<"M", "O", "V", " ", "r", "0", ",", " ", "r", "1">>,
     \* 4: 'MOV r0, r1, r2'
     <<"M", "O", "V", " ", "r", "0", ",", " ", "r", "1", ",", " ", "r",
       "2">>,
     \* 5: 'MOV r0'
     <<"M", "O", "V", " ", "r", "0">>,
     \* 6: 'MOV'
     <<"M", "O", "V">>,
     \* 7: 'mov R2, ooooooooo'
     <<"m", "o", "v", " ", "R", "2", ",", " ", "o", "o", "o", "o", "o",
       "o", "o", "o", "o">>,
     \* 8: 'ADD r1, ooooooo++'
     <<"A", "D", "D", " ", "r", "1", ",", " ", "o", "o", "o", "o", "o",
       "o", "o", "+", "+">>,
     \* 9: 'ADD r1, oooooo+--'
     <<"A", "D", "D", " ", "r", "1", ",", " ", "o", "o", "o", "o", "o",
       "o", "+", "-", "-">>,
     \* 10: 'MUL r2, ooooooo--'
     <<"M", "U", "L", " ", "r", "2", ",", " ", "o", "o", "o", "o", "o",
       "o", "o", "-", "-">>,
     \* 11: 'MUL r2, oooooo-++'
     <<"M", "U", "L", " ", "r", "2", ",", " ", "o", "o", "o", "o", "o",
       "o", "-", "+", "+">>,
     \* 12: 'MUL r2'
     <<"M", "U", "L", " ", "r", "2">>,
     \* 13: 'DIV r3, oooooooo+'
     <<"D", "I", "V", " ", "r", "3", ",", " ", "o", "o", "o", "o", "o",
       "o", "o", "o", "+">>,
     \* 14: 'DIV r3, r4, r5'
     <<"D", "I", "V", " ", "r", "3", ",", " ", "r", "4", ",", " ", "r",
       "5">>,
     \* 15: 'STA r5, +++++++++'
     <<"S", "T", "A", " ", "r", "5", ",", " ", "+", "+", "+", "+", "+",
       "+", "+", "+", "+">>,
     \* 16: 'STA r5, r6, r0'
     <<"S", "T", "A", " ", "r", "5", ",", " ", "r", "6", ",", " ", "r",
       "0">>,
     \* 17: 'LDA ra, sp'
     <<"L", "D", "A", " ", "r", "a", ",", " ", "s", "p">>,
     \* 18: 'LDA ra'
     <<"L", "D", "A", " ", "r", "a">>,
     \* 19: 'JMP .a'
     <<"J", "M", "P", " ", ".", "a">>,
     \* 20: 'JMP r0'
     <<"J", "M", "P", " ", "r", "0">>,
     \* 21: 'JMP oooooo+--'
     <<"J", "M", "P", " ", "o", "o", "o", "o", "o", "o", "+", "-", "-">>,
     \* 22: 'JMP .a, r0'
     <<"J", "M", "P", " ", ".", "a", ",", " ", "r", "0">>,
     \* 23: 'JMP'
     <<"J", "M", "P">>,
     \* 24: '.a'
     <<".", "a">>,
     \* 25: 'FOO r0, r1'
     <<"F", "O", "O", " ", "r", "0", ",", " ", "r", "1">>,
     \* 26: 'MOV r9, r1'
     <<"M", "O", "V", " ", "r", "9", ",", " ", "r", "1">>,
     \* 27: 'MOV r9, zz'
     <<"M", "O", "V", " ", "r", "9", ",", " ", "z", "z">>,
     \* 28: 'ADD r0, .a'
     <<"A", "D", "D", " ", "r", "0", ",", " ", ".", "a">>,
     \* 29: 'ADD r0, r1, r2'
     <<"A", "D", "D", " ", "r", "0", ",", " ", "r", "1", ",", " ", "r",
       "2">>,
     \* 30: 'STA sp,, r1'
     <<"S", "T", "A", " ", "s", "p", ",", ",", " ", "r", "1">>
  >>

MaxOperandLines == 2

ProgramsOver(pool, n) ==
  UNION {[1..k -> 1..Len(pool)] : k \in 0..n}

InputOf(pool, prog) == [j \in 1..Len(prog) |-> pool[prog[j]]]

(***************************************************************************)
(* State.                                                                  *)
(*   assemble(input): input, lines, the position (pc, i) of the call, the  *)
(*   cursors of the two passes, labels, cart, instructions, and what the   *)
(*   caller obtained (result) or the error thrown at it (error).           *)
(*   addrP1/wordsP1/addrP2/wordsP2 record, per line, the cursor value at   *)
(*   which each pass reached the line and the words it advanced over it.   *)
(*   written lists the addresses pass 2 stored a word at, in order.        *)
(*   Memory under test: mem; lastOp is the outcome of the last call and    *)
(*   stored the value of the last accepted store per address.              *)
(*   Callers of assemble: calls counts the calls made, history keeps the   *)
(*   outcome of the first call made on each input.                         *)
(*   VineCanvas: ram is vm.ram; lastEvent the last mouse event handled and *)
(*   the ram it found, buttons the buttons of the mousedown and mouseup    *)
(*   events handled so far; stopped and clock are the fields of the canvas,     *)
(*   timers and frames the interval timers and animation frames pending    *)
(*   in the host, focus what document.hasFocus() returns; nextId the id    *)
(*   the next setInterval returns; ticks the timer ticks that ran vm.next  *)
(*   since the last start or stop, drawn whether the last drawLoop drew.   *)
(*   xorPN and xorNP are the two entries of the xor table the written      *)
(*   specification leaves open: xor(+,-) and xor(-,+).                     *)
(***************************************************************************)
VARIABLES input, lines, pc, i, address1, address2, labels, warnings, cart,
          instructions, result, error, addrP1, wordsP1, addrP2, wordsP2,
          written, mem, lastOp, stored, calls, history,
          ram, lastEvent, buttons, xorPN, xorNP,
          stopped, clock, timers, frames, focus, nextId, ticks, drawn

asmVars == <<input, lines, pc, i, address1, address2, labels, warnings, cart,
             instructions, result, error, addrP1, wordsP1, addrP2, wordsP2,
             written>>
memVars == <<mem, lastOp, stored>>
callVars == <<calls, history>>
mouseVars == <<ram, lastEvent, buttons, xorPN, xorNP>>
loopVars == <<stopped, clock, timers, frames, focus, nextId, ticks, drawn>>
canvasVars == <<mouseVars, loopVars>>
otherVars == <<memVars, callVars, canvasVars>>
vars == <<asmVars, otherVars>>

NoResult == [returned |-> FALSE, mem |-> NewMemory, labels |-> <<>>,
             instructions |-> <<>>]

\* error: the pass in which the call threw (0: it did not) and the message
NoError == [pass |-> 0, msg |-> ""]

NoOp == [op |-> "none", addr |-> Num(0), value |-> Num(0), ok |-> TRUE,
         word |-> Null, before |-> NewMemory]

ZeroWord == s2t(<<"o", "o", "o", "o", "o", "o", "o", "o", "o">>)

\* A label binding holds a word of its own (clone) or refers to the cursor
\* object of pass 1
Deref(binding) == IF binding.ref = "cursor" THEN address1 ELSE binding.val

\* The label table as its readers see it
LabelTable == [n \in DOMAIN labels |-> Deref(labels[n])]

\* A label table in which the first declaration of a name wins
BindLabelKeepFirst(table, labelName, address) ==
  IF labelName \in DOMAIN table THEN table
  ELSE [n \in DOMAIN table \cup {labelName} |->
          IF n = labelName THEN [ref |-> "copy", val |-> clone(address)]
          ELSE table[n]]

\* labels.set(labelName, address): the table holds the cursor object itself
BindLabelNoClone(table, labelName, address) ==
  [n \in DOMAIN table \cup {labelName} |->
     IF n = labelName THEN [ref |-> "cursor", val |-> address] ELSE table[n]]

\* labels.set(labelName, clone(address))
BindLabel(table, labelName, address) ==
  [n \in DOMAIN table \cup {labelName} |->
     IF n = labelName THEN [ref |-> "copy", val |-> clone(address)] ELSE table[n]]

\* input.split('\n').map(line => line.replace(/;.*$/, '').trim())
\*      .filter(line => line.length > 0)
FilterLines(in) ==
  SelectSeq([j \in 1..Len(in) |-> trim(stripComment(in[j]))],
            LAMBDA line : Len(line) > 0)

IdleMemory == mem = NewMemory /\ lastOp = NoOp /\ stored = <<>>

\* One call of assemble, with no call before it
IdleCalls == calls = 1 /\ history = <<>>

NoEvent == [type |-> "none", button |-> 0, before |-> NewMemory]

\* No canvas
IdleCanvas ==
  /\ ram = NewMemory
  /\ lastEvent = NoEvent
  /\ buttons = {}
  /\ xorPN = 0
  /\ xorNP = 0
  /\ stopped = TRUE
  /\ clock = 0
  /\ timers = {}
  /\ frames = 0
  /\ focus = TRUE
  /\ nextId = 1
  /\ ticks = 0
  /\ drawn = FALSE

\* A first call of assemble on one of the inputs
InitOn(inputs) ==
  /\ input \in inputs
  /\ lines = <<>>
  /\ pc = "called"
  /\ i = 0
  /\ address1 = ZeroWord
  /\ address2 = ZeroWord
  /\ labels = <<>>
  /\ warnings = {}
  /\ cart = NewMemory
  /\ instructions = <<>>
  /\ result = NoResult
  /\ error = NoError
  /\ addrP1 = <<>>
  /\ wordsP1 = <<>>
  /\ addrP2 = <<>>
  /\ wordsP2 = <<>>
  /\ written = <<>>
  /\ IdleMemory
  /\ IdleCalls
  /\ IdleCanvas

InitWith(pool, n) ==
  InitOn({InputOf(pool, prog) : prog \in ProgramsOver(pool, n)})

Init == InitWith(Pool, MaxLines)

InitOperands == InitWith(OperandPool, MaxOperandLines)

(***************************************************************************)
(* assemble                                                                *)
(***************************************************************************)
\* A failure that hands the caller what has been assembled so far
ThrowWithImage(err) ==
  /\ pc' = "thrown"
  /\ error' = [pass |-> IF pc = "pass1" THEN 1 ELSE 2, msg |-> err]
  /\ result' = [returned |-> TRUE, mem |-> cart, labels |-> LabelTable,
                instructions |-> instructions]

\* throw: the call ends without a return value; cart, labels and
\* instructions, local to the call, are dropped with it
Throw(err) ==
  /\ pc' = "thrown"
  /\ error' = [pass |-> IF pc = "pass1" THEN 1 ELSE 2, msg |-> err]
  /\ result' = result

\* Begin with labels a map of the module, shared by all calls, instead of
\* the new Map() of line 42
BeginSharedLabels ==
  /\ pc = "called"
  /\ lines' = FilterLines(input)
  /\ cart' = NewMemory
  /\ address1' = ZeroWord
  /\ i' = 1
  /\ pc' = "pass1"
  /\ UNCHANGED <<input, address2, labels, warnings, instructions, result,
                 error, addrP1, wordsP1, addrP2, wordsP2, written,
                 otherVars>>

\* lines 34-46: filter the lines, create cart, alu, labels, the first cursor
Begin ==
  /\ pc = "called"
  /\ lines' = FilterLines(input)
  /\ cart' = NewMemory
  /\ labels' = <<>>
  /\ address1' = ZeroWord
  /\ i' = 1
  /\ pc' = "pass1"
  /\ UNCHANGED <<input, address2, warnings, instructions, result, error,
                 addrP1, wordsP1, addrP2, wordsP2, written,
                 otherVars>>

IsLabelLine(line) == line[1] = "."

\* Pass 1 that forgets the second word
Pass1WordsOneOnly(instruction) == 1

\* Words pass 1 advances the cursor by for an instruction
Pass1Words(instruction) == IF Truthy(instruction.z) THEN 2 ELSE 1

RECURSIVE Advance(_, _)
Advance(address, n) ==
  IF n = 0 THEN address ELSE Advance(add(address, n2t(1)), n - 1)

\* A pass 1 without the check of left-over operands
TooManyOperandsUnchecked(operands) == FALSE

\* lines 54-56: operands that parseInstruction did not consume
TooManyOperands(operands) == Len(operands) # 0

\* lines 49-59: one instruction line of the first pass
Pass1Instruction ==
  /\ pc = "pass1"
  /\ i <= Len(lines)
  /\ ~IsLabelLine(lines[i])
  /\ LET parts == parseInstructionParts(lines[i])
         mnemonic == Head(parts)
         parsed == parseInstruction(mnemonic, Tail(parts))
     IN  IF ~parsed.ok
         THEN /\ Throw(parsed.err)
              /\ UNCHANGED <<i, address1, addrP1, wordsP1>>
         ELSE IF TooManyOperands(parsed.operands)
         THEN /\ Throw("too many operands")
              /\ UNCHANGED <<i, address1, addrP1, wordsP1>>
         ELSE /\ address1' = Advance(address1, Pass1Words(parsed.ins))
              /\ addrP1' = Append(addrP1, t2n(Tr(address1)))
              /\ wordsP1' = Append(wordsP1, Pass1Words(parsed.ins))
              /\ i' = i + 1
              /\ UNCHANGED <<pc, error, result>>
  /\ UNCHANGED <<input, lines, address2, labels, warnings, cart, instructions,
                 addrP2, wordsP2, written,
                 otherVars>>

\* lines 60-69: one label line of the first pass
Pass1Label ==
  /\ pc = "pass1"
  /\ i <= Len(lines)
  /\ IsLabelLine(lines[i])
  /\ LET labelName == substr1(lines[i])
     IN  /\ warnings' = IF labelName \in DOMAIN labels
                        THEN warnings \cup {labelName} ELSE warnings
         /\ labels' = BindLabel(labels, labelName, address1)
  /\ addrP1' = Append(addrP1, t2n(Tr(address1)))
  /\ wordsP1' = Append(wordsP1, 0)
  /\ i' = i + 1
  /\ UNCHANGED <<input, lines, pc, address1, address2, cart, instructions,
                 result, error, addrP2, wordsP2, written,
                 otherVars>>

\* lines 73-76: the first loop is over; instructions and the second cursor
StartPass2 ==
  /\ pc = "pass1"
  /\ i > Len(lines)
  /\ instructions' = <<>>
  /\ address2' = ZeroWord
  /\ i' = 1
  /\ pc' = "pass2"
  /\ UNCHANGED <<input, lines, address1, labels, warnings, cart, result, error,
                 addrP1, wordsP1, addrP2, wordsP2, written,
                 otherVars>>

\* instructions[t2n(address)] = instruction
SetInstruction(table, index, instruction) == (index :> instruction) @@ table

\* The addresses StoreData stores at, in order
StoreAddresses(data, address) ==
  IF data.data1 # Null
  THEN <<t2n(Tr(address)), t2n(Tr(add(address, n2t(1))))>>
  ELSE <<t2n(Tr(address))>>

\* Words pass 2 writes for an encoded instruction: data[1] is written when
\* it is truthy, and a word is
Pass2Words(data) == IF data.data1 # Null THEN 2 ELSE 1

\* Pass 2 that does not advance the cursor between the two stores
StoreDataSameAddress(block, data, address) ==
  LET one == store(block, Tr(data.data0), Tr(address))
  IN  IF data.data1 # Null THEN store(one, Tr(data.data1), Tr(address)) ELSE one

\* lines 89-96: store data[0], advance, and the same for data[1] if present
StoreData(block, data, address) ==
  LET one == store(block, Tr(data.data0), Tr(address))
  IN  IF data.data1 # Null
      THEN store(one, Tr(data.data1), Tr(add(address, n2t(1))))
      ELSE one

\* lines 79-97: one instruction line of the second pass
Pass2Instruction ==
  /\ pc = "pass2"
  /\ i <= Len(lines)
  /\ ~IsLabelLine(lines[i])
  /\ LET parts == parseInstructionParts(lines[i])
         mnemonic == Head(parts)
         parsed == parseInstruction(mnemonic, Tail(parts))
         data == assembleInstruction(parsed.ins, LabelTable)
     IN  IF ~parsed.ok
         THEN /\ Throw(parsed.err)
              /\ UNCHANGED <<i, address2, cart, instructions, addrP2, wordsP2,
                             written>>
         ELSE IF ~data.ok
         THEN /\ Throw(data.err)
              /\ instructions' =
                   SetInstruction(instructions, t2n(Tr(address2)), parsed.ins)
              /\ UNCHANGED <<i, address2, cart, addrP2, wordsP2, written>>
         ELSE /\ instructions' =
                   SetInstruction(instructions, t2n(Tr(address2)), parsed.ins)
              /\ cart' = StoreData(cart, data, address2)
              /\ address2' = Advance(address2, Pass2Words(data))
              /\ addrP2' = Append(addrP2, t2n(Tr(address2)))
              /\ wordsP2' = Append(wordsP2, Pass2Words(data))
              /\ written' = written \o StoreAddresses(data, address2)
              /\ i' = i + 1
              /\ UNCHANGED <<pc, error, result>>
  /\ UNCHANGED <<input, lines, address1, labels, warnings, addrP1, wordsP1,
                 otherVars>>

\* line 79: the second pass skips label lines
Pass2Label ==
  /\ pc = "pass2"
  /\ i <= Len(lines)
  /\ IsLabelLine(lines[i])
  /\ addrP2' = Append(addrP2, t2n(Tr(address2)))
  /\ wordsP2' = Append(wordsP2, 0)
  /\ i' = i + 1
  /\ UNCHANGED <<input, lines, pc, address1, address2, labels, warnings, cart,
                 instructions, result, error, addrP1, wordsP1, written,
                 otherVars>>

\* line 101: return { mem: cart, debug: { labels, instructions } }
Return ==
  /\ pc = "pass2"
  /\ i > Len(lines)
  /\ result' = [returned |-> TRUE, mem |-> cart, labels |-> LabelTable,
                instructions |-> instructions]
  /\ pc' = "returned"
  /\ UNCHANGED <<input, lines, i, address1, address2, labels, warnings, cart,
                 instructions, error, addrP1, wordsP1, addrP2, wordsP2, written,
                 otherVars>>

Next ==
  \/ Begin
  \/ Pass1Instruction
  \/ Pass1Label
  \/ StartPass2
  \/ Pass2Instruction
  \/ Pass2Label
  \/ Return

Spec == Init /\ [][Next]_vars

SpecOperands == InitOperands /\ [][Next]_vars

(***************************************************************************)
(* Memory under test: calls of store and load on one Memory, with the      *)
(* address and the value given as a number or as a word.                   *)
(***************************************************************************)
MemAddrs == {-9841, 0, 9841}
OutAddrs == {-9842, 9842}
MemValues == {-9841, 0, 1, 9841}

InRange(n) == n \in (-TRYTE_MAX)..TRYTE_MAX

\* The forms in which a caller can give the integer n
Forms(n) == IF InRange(n) THEN {Num(n), Tr(n2t(n))} ELSE {Num(n)}

IdleAssembler ==
  /\ input = <<>>
  /\ lines = <<>>
  /\ pc = "idle"
  /\ i = 0
  /\ address1 = ZeroWord
  /\ address2 = ZeroWord
  /\ labels = <<>>
  /\ warnings = {}
  /\ cart = NewMemory
  /\ instructions = <<>>
  /\ result = NoResult
  /\ error = NoError
  /\ addrP1 = <<>>
  /\ wordsP1 = <<>>
  /\ addrP2 = <<>>
  /\ wordsP2 = <<>>
  /\ written = <<>>

\* new Memory(): every cell is zero
InitMemory ==
  /\ mem = NewMemory
  /\ lastOp = NoOp
  /\ stored = <<>>
  /\ IdleAssembler
  /\ IdleCalls
  /\ IdleCanvas

\* Memory.store(value, addr): no statement of store throws
Store(value, addr) ==
  /\ mem' = store(mem, value, addr)
  /\ lastOp' = [op |-> "store", addr |-> addr, value |-> value, ok |-> TRUE,
                word |-> Null, before |-> mem]
  /\ stored' = IF InRange(t2n(addr))
               THEN [a \in DOMAIN stored \cup {t2n(addr)} |->
                       IF a = t2n(addr) THEN t2n(value) ELSE stored[a]]
               ELSE stored
  /\ UNCHANGED <<asmVars, callVars, canvasVars>>

\* Memory.load(addr)
Load(addr) ==
  /\ lastOp' = [op |-> "load", addr |-> addr, value |-> Num(0),
                ok |-> load(mem, addr).ok, word |-> load(mem, addr).word,
                before |-> mem]
  /\ UNCHANGED <<mem, stored, asmVars, callVars, canvasVars>>

NextMemory ==
  \/ \E n \in MemAddrs \cup OutAddrs, v \in MemValues :
       \E addr \in Forms(n), value \in Forms(v) : Store(value, addr)
  \/ \E n \in MemAddrs \cup OutAddrs : \E addr \in Forms(n) : Load(addr)

SpecMemory == InitMemory /\ [][NextMemory]_vars

(***************************************************************************)
(* Properties of assemble.                                                 *)
(***************************************************************************)
ParseLine(line) ==
  LET parts == parseInstructionParts(line)
  IN  parseInstruction(Head(parts), Tail(parts))

MnemonicOf(line) == toUpperCase(Head(parseInstructionParts(line)))

OperandsOf(line) == Tail(parseInstructionParts(line))

InstructionLines == {k \in 1..Len(lines) : ~IsLabelLine(lines[k])}

\* The instruction lines that read JMP with one operand, a dot and a name
JmpToLabel ==
  {k \in InstructionLines :
     /\ MnemonicOf(lines[k]) = <<"J", "M", "P">>
     /\ Len(OperandsOf(lines[k])) = 1
     /\ Len(trim(OperandsOf(lines[k])[1])) > 1
     /\ Head(trim(OperandsOf(lines[k])[1])) = "."}

\* The name after the dot
TargetOf(k) == Tail(trim(OperandsOf(lines[k])[1]))

DeclaredAt(name) ==
  {k \in 1..Len(lines) : IsLabelLine(lines[k]) /\ substr1(lines[k]) = name}

LastDeclaration(name) ==
  CHOOSE k \in DeclaredAt(name) : \A j \in DeclaredAt(name) : j <= k

FirstWordOf(k) == assembleInstruction(ParseLine(lines[k]).ins, LabelTable).data0

\* C1: two-pass agreement.  For every line the second pass has handled, the
\* cursor value at which pass 1 reached the line equals the address at which
\* pass 2 reached it, both passes advance over it by the same number of
\* words, and the program image holds the first word of the instruction's
\* encoding at the address pass 1 had for it.
TwoPassAgreement ==
  \A k \in 1..Len(addrP2) :
    /\ addrP1[k] = addrP2[k]
    /\ wordsP1[k] = wordsP2[k]
    /\ k \in InstructionLines =>
         load(cart, Num(addrP1[k])) = [ok |-> TRUE, word |-> FirstWordOf(k)]

\* A returned program of three lines: a two-word instruction, then a
\* one-word instruction, then a line reached at address 3 by both passes
TwoPassAgreementWitness ==
  /\ pc = "returned"
  /\ Len(lines) = 3
  /\ wordsP1[1] = 2 /\ wordsP2[1] = 2
  /\ wordsP1[2] = 1 /\ wordsP2[2] = 1
  /\ addrP1[3] = 3 /\ addrP2[3] = 3
  /\ 3 \in InstructionLines

\* C5: forward reference.  A JMP to a label that is declared somewhere in the
\* source, before or after the JMP, is not what makes assembly fail; in the
\* returned image the JMP is a two-word WORD_IMMEDIATE instruction whose
\* second word is the address the returned label table binds to the name.
ForwardReference ==
  /\ pc = "thrown" /\ i \in JmpToLabel => DeclaredAt(TargetOf(i)) = {}
  /\ pc = "returned" =>
       \A k \in JmpToLabel :
         /\ ParseLine(lines[k]).ins.addressingMode = WORD_IMMEDIATE
         /\ wordsP2[k] = 2
         /\ TargetOf(k) \in DOMAIN result.labels
         /\ load(result.mem, Num(addrP2[k] + 1)) =
              [ok |-> TRUE, word |-> result.labels[TargetOf(k)]]

\* A returned program in which a JMP precedes the declaration of its label,
\* and the label is bound to an address other than zero
ForwardReferenceWitness ==
  /\ pc = "returned"
  /\ \E k \in JmpToLabel :
       /\ \A d \in DeclaredAt(TargetOf(k)) : k < d
       /\ DeclaredAt(TargetOf(k)) # {}
       /\ t2n(Tr(result.labels[TargetOf(k)])) > 0

\* C7: no partial image.  When assemble throws, in either pass, the caller
\* obtains nothing; a caller that obtains a result obtains it from a call that
\* went through every line in both passes.
NoPartialImage ==
  /\ pc = "thrown" => result = NoResult
  /\ result.returned =>
       /\ pc = "returned"
       /\ Len(addrP1) = Len(lines)
       /\ Len(addrP2) = Len(lines)
       /\ result.mem = cart

\* A call that threw in the second pass after it had stored words in cart
NoPartialImageWitness ==
  /\ pc = "thrown"
  /\ error.pass = 2
  /\ cart # NewMemory
  /\ result = NoResult

\* C8: undeclared label.  The undeclared-label error is thrown in pass 2 only,
\* at a JMP whose label name no line of the source declares; a call that
\* returns has no JMP to an undeclared name; a JMP to a name declared
\* anywhere, before or after it, never throws.
UndeclaredLabel ==
  /\ pc = "thrown" /\ error.msg = "UndeclaredLabelError" =>
       /\ error.pass = 2
       /\ i \in JmpToLabel
       /\ DeclaredAt(TargetOf(i)) = {}
  /\ pc = "thrown" /\ i \in JmpToLabel =>
       /\ error = [pass |-> 2, msg |-> "UndeclaredLabelError"]
       /\ DeclaredAt(TargetOf(i)) = {}
  /\ pc = "returned" => \A k \in JmpToLabel : DeclaredAt(TargetOf(k)) # {}

\* A call that threw the undeclared-label error in pass 2 although the
\* source declares another label
UndeclaredLabelWitness ==
  /\ pc = "thrown"
  /\ error = [pass |-> 2, msg |-> "UndeclaredLabelError"]
  /\ DOMAIN labels # {}
  /\ i \in JmpToLabel

\* C9: redeclaration, last wins.  A label line never throws; once pass 1 is
\* over the label table binds every declared name to the cursor value of its
\* last declaration, the names declared more than once are the ones warned
\* about, and in a returned image the second word of every JMP to a name is
\* the address of the last declaration of the name.
RedeclarationLastWins ==
  /\ pc = "thrown" => i \in InstructionLines
  /\ pc \in {"pass2", "returned"} =>
       /\ \A k \in 1..Len(lines) :
            IsLabelLine(lines[k]) =>
              /\ substr1(lines[k]) \in DOMAIN LabelTable
              /\ LabelTable[substr1(lines[k])] =
                   n2t(addrP1[LastDeclaration(substr1(lines[k]))])
       /\ warnings = {n \in DOMAIN LabelTable : Cardinality(DeclaredAt(n)) > 1}
  /\ pc = "returned" =>
       \A k \in JmpToLabel :
         load(result.mem, Num(addrP2[k] + 1)) =
           [ok |-> TRUE, word |-> n2t(addrP1[LastDeclaration(TargetOf(k))])]

\* A returned program that declares a name at two different addresses, with
\* a JMP to the name before the last declaration
RedeclarationLastWinsWitness ==
  /\ pc = "returned"
  /\ \E k \in JmpToLabel :
       \E d \in DeclaredAt(TargetOf(k)) :
         /\ d < k
         /\ k < LastDeclaration(TargetOf(k))
         /\ addrP1[d] # addrP1[LastDeclaration(TargetOf(k))]
  /\ warnings # {}

\* assembleOpcodeStr: the opcode table of the instruction set; Null stands
\* for the thrown 'Unknown instruction'
assembleOpcodeStr(str) ==
  LET m == toUpperCase(str)
  IN
    CASE m = <<"A", "D", "D">> -> n2t(-13)
      [] m = <<"A", "D", "D", "C">> -> n2t(-11)
      [] m = <<"M", "U", "L">> -> n2t(-10)
      [] m = <<"D", "I", "V">> -> n2t(-9)
      [] m = <<"M", "O", "D">> -> n2t(-8)
      [] m = <<"N", "E", "G">> -> n2t(-7)
      [] m = <<"M", "I", "N">> -> n2t(-6)
      [] m = <<"M", "A", "X">> -> n2t(-5)
      [] m = <<"C", "O", "N">> -> n2t(-4)
      [] m = <<"A", "N", "Y">> -> n2t(-3)
      [] m = <<"R", "S", "H">> -> n2t(-2)
      [] m = <<"U", "S", "H">> -> n2t(-1)
      [] m = <<"N", "O", "P">> -> n2t(0)
      [] m = <<"M", "O", "V">> -> n2t(1)
      [] m = <<"C", "M", "P">> -> n2t(2)
      [] m = <<"J", "M", "P">> -> n2t(3)
      [] m = <<"B", "E", "Q">> -> n2t(4)
      [] m = <<"B", "G", "T">> -> n2t(5)
      [] m = <<"B", "L", "T">> -> n2t(6)
      [] m = <<"J", "A", "L">> -> n2t(7)
      [] m = <<"L", "O", "D">> -> n2t(8)
      [] m = <<"X", "O", "R">> -> n2t(9)
      [] OTHER -> Null

\* The operands each mnemonic accepts
Accepts(m) ==
  CASE m = <<"N", "O", "P">> -> 0
    [] m = <<"J", "M", "P">> -> 1
    [] m \in {<<"M", "O", "V">>, <<"A", "D", "D">>, <<"M", "U", "L">>,
              <<"D", "I", "V">>, <<"S", "T", "A">>, <<"L", "D", "A">>} -> 2
    [] OTHER -> -1

\* The instruction lines with more operands than the mnemonic accepts, or
\* fewer
BadOperandCount ==
  {k \in InstructionLines :
     /\ Accepts(MnemonicOf(lines[k])) >= 0
     /\ Len(OperandsOf(lines[k])) # Accepts(MnemonicOf(lines[k]))}

\* The instruction lines pass 1 has accepted
Accepted == {k \in InstructionLines : k <= Len(wordsP1)}

Abs(n) == IF n < 0 THEN -n ELSE n

\* The immediate the last operand of line k reads as, or Null
ImmediateOf(k) ==
  IF OperandsOf(lines[k]) = <<>> THEN Null
  ELSE LET ops == OperandsOf(lines[k])
       IN  IF parseRegisterOperand(Str(ops[Len(ops)])) # Null THEN Null
           ELSE parseImmediateOperand(Str(ops[Len(ops)]))

\* C2: addressing-mode boundary.  An accepted instruction whose second
\* operand is an immediate of value v is SHORT_IMMEDIATE, with y the
\* immediate and no second word, and takes one word when |v| <= 4; it is
\* WORD_IMMEDIATE, with z the immediate, and takes two words when |v| > 4.
AddressingModeBoundary ==
  \A k \in Accepted :
    ImmediateOf(k) # Null =>
      LET ins == ParseLine(lines[k]).ins
          v == t2n(Tr(ImmediateOf(k)))
      IN  IF Abs(v) <= 4
          THEN /\ ins.addressingMode = SHORT_IMMEDIATE
               /\ ins.y = ImmediateOf(k)
               /\ ins.z = ZNull
               /\ wordsP1[k] = 1
          ELSE /\ ins.addressingMode = WORD_IMMEDIATE
               /\ ins.z = ZTryte(ImmediateOf(k))
               /\ wordsP1[k] = 2

\* The mnemonics the assembler accepts that have an entry in the opcode table
TableMnemonics ==
  {<<"N", "O", "P">>, <<"M", "O", "V">>, <<"A", "D", "D">>, <<"M", "U", "L">>,
   <<"D", "I", "V">>, <<"J", "M", "P">>}

\* C6: opcode table.  The opcode of every accepted instruction whose mnemonic
\* has an entry in the opcode table is the table's value, lies in -13..9, and
\* two accepted instructions of different mnemonics have different opcodes.
OpcodeTable ==
  /\ \A k \in Accepted :
       MnemonicOf(lines[k]) \in TableMnemonics =>
         /\ ParseLine(lines[k]).ins.opcode = assembleOpcodeStr(MnemonicOf(lines[k]))
         /\ t2n(Tr(ParseLine(lines[k]).ins.opcode)) \in (-13)..9
  /\ \A k, j \in Accepted :
       /\ MnemonicOf(lines[k]) \in TableMnemonics
       /\ MnemonicOf(lines[j]) \in TableMnemonics
       /\ MnemonicOf(lines[k]) # MnemonicOf(lines[j])
       => ParseLine(lines[k]).ins.opcode # ParseLine(lines[j]).ins.opcode

\* C10: operand count.  A source with an instruction line that has more
\* operands than its mnemonic accepts, or fewer, never gets past pass 1:
\* no word is ever written to the program image, nothing is returned, and
\* when the call throws at such a line it throws in pass 1.
OperandCount ==
  /\ BadOperandCount # {} =>
       /\ pc \notin {"pass2", "returned"}
       /\ cart = NewMemory
       /\ result = NoResult
  /\ pc = "thrown" /\ i \in BadOperandCount => error.pass = 1
  /\ pc = "thrown" /\ error.msg = "too many operands" =>
       Len(OperandsOf(lines[i])) > Accepts(MnemonicOf(lines[i]))

\* A call that threw 'too many operands' at its second line, after pass 1
\* had advanced the cursor over a first instruction
OperandCountWitness ==
  /\ pc = "thrown"
  /\ error = [pass |-> 1, msg |-> "too many operands"]
  /\ i = 2
  /\ address1 # ZeroWord
  /\ cart = NewMemory

(***************************************************************************)
(* Properties of Memory.                                                   *)
(***************************************************************************)
LastStored(a) == IF a \in DOMAIN stored THEN stored[a] ELSE 0

\* C3: memory round trip, no aliasing.  Every in-range address, given as a
\* number or as a word, loads the word of the value last stored to it, or
\* the zero word if none was; a store to an in-range address leaves what
\* every other address loads unchanged.
MemoryRoundTrip ==
  /\ \A a \in MemAddrs : \A addr \in Forms(a) :
       load(mem, addr) = [ok |-> TRUE, word |-> n2t(LastStored(a))]
  /\ lastOp.op = "store" /\ InRange(t2n(lastOp.addr)) =>
       /\ load(mem, lastOp.addr) = [ok |-> TRUE, word |-> n2t(t2n(lastOp.value))]
       /\ \A b \in MemAddrs \ {t2n(lastOp.addr)} :
            load(mem, Num(b)) = load(lastOp.before, Num(b))
  /\ lastOp.op = "load" /\ InRange(t2n(lastOp.addr)) =>
       /\ lastOp.ok
       /\ lastOp.word = n2t(LastStored(t2n(lastOp.addr)))

\* A load of the highest address that returns the lowest value, stored there
\* while the lowest address holds the highest value
MemoryRoundTripWitness ==
  /\ lastOp.op = "load"
  /\ t2n(lastOp.addr) = TRYTE_MAX
  /\ lastOp.word = n2t(-TRYTE_MAX)
  /\ LastStored(-TRYTE_MAX) = TRYTE_MAX
  /\ LastStored(0) = 1

\* C4: out-of-range addresses fail.  A load or store with an address outside
\* [-9841, 9841] ends with an error and leaves every cell as it was.
OutOfRangeFails ==
  lastOp.op \in {"load", "store"} /\ ~InRange(t2n(lastOp.addr)) =>
    /\ ~lastOp.ok
    /\ mem = lastOp.before

(***************************************************************************)
(* Register-first mnemonics: label operands and first operands.            *)
(***************************************************************************)
RegisterPool ==
  <<
     \* 1: '.a'
     <<".", "a">>,
     \* 2: 'JMP .a'
     <<"J", "M", "P", " ", ".", "a">>,
     \* 3: 'jmp  .b'
     <<"j", "m", "p", " ", " ", ".", "b">>,
     \* 4: 'MOV r0, .a'
     <<"M", "O", "V", " ", "r", "0", ",", " ", ".", "a">>,
     \* 5: 'MOV r0, .b'
     <<"M", "O", "V", " ", "r", "0", ",", " ", ".", "b">>,
     \* 6: 'ADD r1, .a'
     <<"A", "D", "D", " ", "r", "1", ",", " ", ".", "a">>,
     \* 7: 'MUL r2,.a'
     <<"M", "U", "L", " ", "r", "2", ",", ".", "a">>,
     \* 8: 'DIV r3, .b'
     <<"D", "I", "V", " ", "r", "3", ",", " ", ".", "b">>,
     \* 9: 'STA ra, .a'
     <<"S", "T", "A", " ", "r", "a", ",", " ", ".", "a">>,
     \* 10: 'LDA sp, .a'
     <<"L", "D", "A", " ", "s", "p", ",", " ", ".", "a">>,
     \* 11: 'MOV r9, r1'
     <<"M", "O", "V", " ", "r", "9", ",", " ", "r", "1">>,
     \* 12: 'MOV r9, zz'
     <<"M", "O", "V", " ", "r", "9", ",", " ", "z", "z">>,
     \* 13: 'ADD r7, r1'
     <<"A", "D", "D", " ", "r", "7", ",", " ", "r", "1">>,
     \* 14: 'ADD x, zz'
     <<"A", "D", "D", " ", "x", ",", " ", "z", "z">>,
     \* 15: 'MUL pc, r1'
     <<"M", "U", "L", " ", "p", "c", ",", " ", "r", "1">>,
     \* 16: 'MUL r9, .a'
     <<"M", "U", "L", " ", "r", "9", ",", " ", ".", "a">>,
     \* 17: 'DIV r10, r1'
     <<"D", "I", "V", " ", "r", "1", "0", ",", " ", "r", "1">>,
     \* 18: 'DIV , r1'
     <<"D", "I", "V", " ", ",", " ", "r", "1">>,
     \* 19: 'STA r9, r1'
     <<"S", "T", "A", " ", "r", "9", ",", " ", "r", "1">>,
     \* 20: 'STA 0, zz'
     <<"S", "T", "A", " ", "0", ",", " ", "z", "z">>,
     \* 21: 'LDA r-1, r1'
     <<"L", "D", "A", " ", "r", "-", "1", ",", " ", "r", "1">>,
     \* 22: 'LDA sq, zz'
     <<"L", "D", "A", " ", "s", "q", ",", " ", "z", "z">>,
     \* 23: 'sta  RA , Sp'
     <<"s", "t", "a", " ", " ", "R", "A", " ", ",", " ", "S", "p">>,
     \* 24: 'MOV Sp, r1'
     <<"M", "O", "V", " ", "S", "p", ",", " ", "r", "1">>
  >>

MaxRegisterLines == 2

InitRegisters == InitWith(RegisterPool, MaxRegisterLines)

SpecRegisters == InitRegisters /\ [][Next]_vars

\* The mnemonics whose first operand is a register
RegisterFirstMnemonics ==
  {<<"M", "O", "V">>, <<"A", "D", "D">>, <<"M", "U", "L">>,
   <<"D", "I", "V">>, <<"S", "T", "A">>, <<"L", "D", "A">>}

RegisterFirstLines ==
  {k \in InstructionLines : MnemonicOf(lines[k]) \in RegisterFirstMnemonics}

\* A dot and a name
IsLabelToken(token) == Len(trim(token)) > 1 /\ Head(trim(token)) = "."

\* The register-first lines whose second operand is a label
LabelSecond ==
  {k \in RegisterFirstLines :
     /\ Len(OperandsOf(lines[k])) >= 2
     /\ IsLabelToken(OperandsOf(lines[k])[2])}

\* Assembly fails in pass 1 at line k or before it
FailsBy(k) ==
  /\ pc \notin {"pass2", "returned"}
  /\ pc = "pass1" => i <= k
  /\ pc = "thrown" => error.pass = 1 /\ i <= k

\* C11: label operands are accepted only by JMP.  A line of MOV, ADD, MUL,
\* DIV, STA or LDA whose second operand is a dot and a name makes assembly
\* fail in pass 1, whether the name is declared or not; a JMP whose operand
\* is a dot and a name is not rejected in pass 1, and not in pass 2 either
\* when the name is declared.
LabelOnlyForJmp ==
  /\ \A k \in LabelSecond : FailsBy(k)
  /\ \A k \in JmpToLabel :
       pc = "thrown" /\ i = k =>
         error.pass = 2 /\ DeclaredAt(TargetOf(k)) = {}

\* A MOV, ADD, MUL, DIV, STA or LDA rejected for its label operand although
\* the label is declared and the first operand is a register
LabelOnlyForJmpWitness ==
  /\ pc = "thrown"
  /\ i \in LabelSecond
  /\ DeclaredAt(Tail(trim(OperandsOf(lines[i])[2]))) # {}
  /\ error.pass = 1
  /\ error.msg \in {"MOV: operand 2 (source) must be a register or immediate",
                    "ADD: operand 2 must be a register or immediate",
                    "MUL: operand 2 must be a register or immediate",
                    "DIV: operand 2 must be a register or immediate",
                    "STA: operand 2 must be a register or address",
                    "LDA: operand 2 must be a register or address"}

\* The register table r0..r6, ra, sp
RegisterNames ==
  {<<"r", "0">>, <<"r", "1">>, <<"r", "2">>, <<"r", "3">>, <<"r", "4">>,
   <<"r", "5">>, <<"r", "6">>, <<"r", "a">>, <<"s", "p">>}

\* The register-first lines with a first operand that is no register name
BadFirstOperand ==
  {k \in RegisterFirstLines :
     /\ Len(OperandsOf(lines[k])) >= 1
     /\ toLowerCase(trim(OperandsOf(lines[k])[1])) \notin RegisterNames}

\* The error of mnemonic m that names operand 1
Operand1Error(m) ==
  CASE m = <<"M", "O", "V">> -> "MOV: operand 1 (destination) must be a register"
    [] m = <<"A", "D", "D">> -> "ADD: operand 1 must be a register"
    [] m = <<"M", "U", "L">> -> "MUL: operand 1 must be a register"
    [] m = <<"D", "I", "V">> -> "DIV: operand 1 must be a register"
    [] m = <<"S", "T", "A">> -> "STA: operand 1 must be a register"
    [] m = <<"L", "D", "A">> -> "LDA: operand 1 must be a register"

\* The second operand of line k is neither a register nor an immediate
BadSecondOperand(k) ==
  \/ Len(OperandsOf(lines[k])) < 2
  \/ /\ parseRegisterOperand(Str(OperandsOf(lines[k])[2])) = Null
     /\ parseImmediateOperand(Str(OperandsOf(lines[k])[2])) = Null

\* C12: a first operand outside the register table fails assembly in pass 1
\* with the error of the mnemonic that names operand 1, whatever the second
\* operand is; a first operand inside the table, in any case and with spaces
\* around it, never raises that error.
FirstOperandRegister ==
  /\ \A k \in BadFirstOperand :
       /\ FailsBy(k)
       /\ pc = "thrown" /\ i = k =>
            error.msg = Operand1Error(MnemonicOf(lines[k]))
  /\ \A k \in RegisterFirstLines \ BadFirstOperand :
       pc = "thrown" /\ i = k /\ Len(OperandsOf(lines[k])) >= 1 =>
         error.msg # Operand1Error(MnemonicOf(lines[k]))

\* A line rejected for its first operand although its second operand is
\* invalid too
FirstOperandRegisterWitness ==
  /\ pc = "thrown"
  /\ i \in BadFirstOperand
  /\ BadSecondOperand(i)
  /\ Len(OperandsOf(lines[i])) = 2
  /\ error = [pass |-> 1, msg |-> Operand1Error(MnemonicOf(lines[i]))]

(***************************************************************************)
(* Label bindings.                                                         *)
(***************************************************************************)
RECURSIVE WordsBefore(_)
\* The words pass 1 consumed over the lines before line k
WordsBefore(k) == IF k <= 1 THEN 0 ELSE wordsP1[k - 1] + WordsBefore(k - 1)

\* The declarations of name that pass 1 has handled
Handled(name) == {k \in DeclaredAt(name) : k <= Len(wordsP1)}

LastHandled(name) ==
  CHOOSE k \in Handled(name) : \A j \in Handled(name) : j <= k

\* The label table pass 1 has built so far, from the words consumed
BoundSoFar ==
  [n \in {substr1(lines[k]) : k \in {j \in 1..Len(wordsP1) : IsLabelLine(lines[j])}}
     |-> n2t(WordsBefore(LastHandled(n)))]

\* C15: a label is bound to a copy of the cursor.  In every state of a call
\* the label table binds each name declared so far to the number of words
\* the instruction lines before its last handled declaration consumed,
\* however far the cursor has advanced since and whatever pass 2 has done;
\* the returned label table is that table.
LabelBoundToCopy ==
  /\ pc \in {"pass1", "pass2", "thrown", "returned"} => LabelTable = BoundSoFar
  /\ pc = "returned" => result.labels = BoundSoFar

\* A returned call whose label is bound to an address above zero and below
\* the final cursor: instructions come before and after the declaration
LabelBoundToCopyWitness ==
  /\ pc = "returned"
  /\ \E n \in DOMAIN result.labels :
       /\ t2n(Tr(result.labels[n])) > 0
       /\ t2n(Tr(result.labels[n])) < t2n(Tr(address1))
       /\ t2n(Tr(result.labels[n])) = WordsBefore(LastHandled(n))

(***************************************************************************)
(* Calls of assemble one after another.  assemble is synchronous, so a     *)
(* call begins when the one before it has returned or thrown.  The locals  *)
(* of the finished call keep their values until the statements of the new  *)
(* call that create them anew.                                             *)
(***************************************************************************)
MaxCalls == 3

\* The sources assembled, as lines of Pool
ReentrantPrograms ==
  {<<4, 5>>, <<5>>, <<1, 4, 5>>, <<2>>, <<10, 6, 7>>, <<7>>}

ReentrantInputs == {InputOf(Pool, prog) : prog \in ReentrantPrograms}

\* What a finished call gave its caller
Outcome ==
  [returned |-> result.returned, mem |-> result.mem, labels |-> result.labels,
   error |-> error]

InitReentrant == InitOn(ReentrantInputs)

\* The caller takes the outcome and calls assemble on another source
CallAgain ==
  /\ pc \in {"returned", "thrown"}
  /\ calls < MaxCalls
  /\ history' = IF input \in DOMAIN history THEN history
                ELSE history @@ (input :> Outcome)
  /\ calls' = calls + 1
  /\ input' \in ReentrantInputs
  /\ pc' = "called"
  /\ i' = 0
  /\ result' = NoResult
  /\ error' = NoError
  /\ warnings' = {}
  /\ addrP1' = <<>>
  /\ wordsP1' = <<>>
  /\ addrP2' = <<>>
  /\ wordsP2' = <<>>
  /\ written' = <<>>
  /\ UNCHANGED <<lines, address1, address2, labels, cart, instructions,
                 memVars, canvasVars>>

NextReentrant ==
  \/ Next
  \/ CallAgain

SpecReentrant == InitReentrant /\ [][NextReentrant]_vars

\* The names the lines of the current call declare
DeclaredNames ==
  {substr1(lines[k]) : k \in {j \in 1..Len(lines) : IsLabelLine(lines[j])}}

\* The block indices the current call stored at
WrittenIndices == {written[k] + MEMORY_OFFSET : k \in 1..Len(written)}

\* C13: determinism and reentrancy.  A finished call on a source assembled
\* before, with whatever calls in between, has the outcome of the first call
\* on that source: the same image and label table, or the same error.  A
\* returned label table binds the names the source declares and no other, to
\* the addresses this call's first pass counted, and every non-zero cell of
\* a returned image is at an address this call stored at.
AssembleReentrant ==
  /\ pc \in {"returned", "thrown"} /\ input \in DOMAIN history =>
       Outcome = history[input]
  /\ pc = "returned" =>
       /\ DOMAIN result.labels = DeclaredNames
       /\ result.labels = BoundSoFar
       /\ DOMAIN result.mem \subseteq WrittenIndices

\* A third call that returned, on the source of the first call, after a
\* call on a different source that declares a label
AssembleReentrantWitness ==
  /\ calls = 3
  /\ pc = "returned"
  /\ input \in DOMAIN history
  /\ Cardinality(DOMAIN history) = 2
  /\ \E other \in DOMAIN history :
       other # input /\ history[other].returned /\ history[other].labels # <<>>
  /\ result.mem # NewMemory

(***************************************************************************)
(* The call of assemble as one function of its input: the two loops of     *)
(* lines 47-71 and 77-99 run over the lines in order, each iteration the   *)
(* body the step actions above take one at a time.  A loop state is the    *)
(* locals of the call; ok is FALSE once an iteration has thrown, and the   *)
(* iterations after it do nothing, the call being over.                    *)
(***************************************************************************)
\* The label table as pass 2 reads it, every binding being a copy
Copies(table) == [n \in DOMAIN table |-> table[n].val]

\* One iteration of the first loop
Pass1Line(st, line) ==
  IF ~st.ok THEN st
  ELSE IF IsLabelLine(line)
  THEN [st EXCEPT !.labels = BindLabel(@, substr1(line), st.address)]
  ELSE LET parts == parseInstructionParts(line)
           parsed == parseInstruction(Head(parts), Tail(parts))
       IN  IF ~parsed.ok
           THEN [st EXCEPT !.ok = FALSE, !.error = [pass |-> 1, msg |-> parsed.err]]
           ELSE IF TooManyOperands(parsed.operands)
           THEN [st EXCEPT !.ok = FALSE,
                           !.error = [pass |-> 1, msg |-> "too many operands"]]
           ELSE [st EXCEPT !.address = Advance(@, Pass1Words(parsed.ins))]

\* One iteration of the second loop
Pass2Line(st, line) ==
  IF ~st.ok \/ IsLabelLine(line) THEN st
  ELSE LET parts == parseInstructionParts(line)
           parsed == parseInstruction(Head(parts), Tail(parts))
           data == assembleInstruction(parsed.ins, Copies(st.labels))
       IN  IF ~parsed.ok
           THEN [st EXCEPT !.ok = FALSE, !.error = [pass |-> 2, msg |-> parsed.err]]
           ELSE IF ~data.ok
           THEN [st EXCEPT !.ok = FALSE, !.error = [pass |-> 2, msg |-> data.err],
                           !.instructions =
                              SetInstruction(@, t2n(Tr(st.address)), parsed.ins)]
           ELSE [st EXCEPT !.instructions =
                              SetInstruction(@, t2n(Tr(st.address)), parsed.ins),
                           !.cart = StoreData(@, data, st.address),
                           !.written = @ \o StoreAddresses(data, st.address),
                           !.address = Advance(@, Pass2Words(data))]

\* The value of a set of one value
TheOne(S) == CHOOSE v \in S : TRUE

RECURSIVE Pass1Loop(_, _, _, _)
\* for (const line of lines), first loop, over the lines from..to in order:
\* the first half of them, then the second half from the state the first
\* half left
Pass1Loop(st, ls, from, to) ==
  IF from > to THEN st
  ELSE IF from = to THEN Pass1Line(st, ls[from])
  ELSE TheOne({Pass1Loop(half, ls, ((from + to) \div 2) + 1, to) :
                 half \in {Pass1Loop(st, ls, from, (from + to) \div 2)}})

RECURSIVE Pass2Loop(_, _, _, _)
\* for (const line of lines), second loop, over the lines from..to in order
Pass2Loop(st, ls, from, to) ==
  IF from > to THEN st
  ELSE IF from = to THEN Pass2Line(st, ls[from])
  ELSE TheOne({Pass2Loop(half, ls, ((from + to) \div 2) + 1, to) :
                 half \in {Pass2Loop(st, ls, from, (from + to) \div 2)}})

\* The locals when the call ends, from the locals after the first loop
AfterPass1(one, ls) ==
  TheOne({[ok |-> two.ok, error |-> two.error, lines |-> ls,
           address1 |-> one.address,
           address2 |-> IF one.ok THEN two.address ELSE ZeroWord,
           labels |-> two.labels, cart |-> two.cart,
           instructions |-> two.instructions, written |-> two.written] :
          two \in {IF one.ok
                   THEN Pass2Loop([one EXCEPT !.address = ZeroWord], ls, 1, Len(ls))
                   ELSE one}})

\* assemble(input): the locals when the call ends
assembleCall(in) ==
  TheOne({TheOne({AfterPass1(one, ls) :
                    one \in {Pass1Loop([ok |-> TRUE, error |-> NoError,
                                        address |-> ZeroWord, labels |-> <<>>,
                                        cart |-> NewMemory, instructions |-> <<>>,
                                        written |-> <<>>], ls, 1, Len(ls))}}) :
          ls \in {FilterLines(in)}})

\* The number of JMP lines of the long program: two words each, one more
\* than the addresses 0 .. 9841 hold
LongJumps == 4922

\* '.a' and then LongJumps times 'JMP .a'
LongProgram ==
  [k \in 1..(LongJumps + 1) |->
     IF k = 1 THEN <<".", "a">> ELSE <<"J", "M", "P", " ", ".", "a">>]

MaxImageLines == 2

ImageInputs ==
  {InputOf(Pool, prog) : prog \in ProgramsOver(Pool, MaxImageLines)}
    \cup {LongProgram}

InitImage == InitOn(ImageInputs)

\* The whole call in one step
Assemble ==
  /\ pc = "called"
  /\ \E out \in {assembleCall(input)} :
       /\ pc' = IF out.ok THEN "returned" ELSE "thrown"
       /\ error' = out.error
       /\ result' = IF out.ok
                    THEN [returned |-> TRUE, mem |-> out.cart,
                          labels |-> Copies(out.labels),
                          instructions |-> out.instructions]
                    ELSE NoResult
       /\ lines' = out.lines
       /\ i' = Len(out.lines) + 1
       /\ address1' = out.address1
       /\ address2' = out.address2
       /\ labels' = out.labels
       /\ cart' = out.cart
       /\ instructions' = out.instructions
       /\ written' = out.written
  /\ UNCHANGED <<input, warnings, addrP1, wordsP1, addrP2, wordsP2, otherVars>>

NextImage == Assemble

SpecImage == InitImage /\ [][NextImage]_vars

\* C14: consecutive addresses from zero.  The first word a call stores is
\* at address 0 and every later word at the address one above the word
\* stored before it, so the addresses stored at strictly increase and none
\* is stored at twice; a returned image holds the zero word at every
\* address the call did not store at.
ConsecutiveFromZero ==
  /\ written # <<>> => written[1] = 0
  /\ \A k \in 2..Len(written) : written[k] = written[k - 1] + 1
  /\ pc = "returned" => DOMAIN result.mem \subseteq WrittenIndices

(***************************************************************************)
(* vine.ts: the mouse handlers of VineCanvas on vm.ram.                    *)
(* ALU.xor, ALU.min and ALU.max combine the accumulator with the operand   *)
(* trit by trit and leave the result in the accumulator, which the         *)
(* handlers then store.                                                    *)
(***************************************************************************)
xorTrit(a, b) ==
  IF b = 0 THEN a
  ELSE IF a = 0 THEN b
  ELSE IF a = b THEN 0
  ELSE IF a = 1 THEN xorPN ELSE xorNP

xor(acc, operand) == [j \in 1..9 |-> xorTrit(acc[j], operand[j])]

min(acc, operand) ==
  [j \in 1..9 |-> IF acc[j] < operand[j] THEN acc[j] ELSE operand[j]]

max(acc, operand) ==
  [j \in 1..9 |-> IF acc[j] > operand[j] THEN acc[j] ELSE operand[j]]

\* symbols
MOUSE_X == s2t(<<"-", "-", "-", "-", "-", "-", "-", "-", "-">>)
MOUSE_Y == s2t(<<"-", "-", "-", "-", "-", "-", "-", "-", "o">>)
MOUSE_BTN == s2t(<<"-", "-", "-", "-", "-", "-", "-", "-", "+">>)

\* evt.button: left, middle, right, and a fourth button no branch handles
MouseButtons == {0, 1, 2, 3}

\* evt.offsetX, evt.offsetY: the left and top edge of the canvas
MouseOffsets == {0}

\* The operand of alu.xor for a button, the same in both handlers
XorMask(button) ==
  CASE button = 0 -> s2t(<<"o", "o", "o", "-", "-", "-", "-", "-", "-">>)
    [] button = 1 -> s2t(<<"-", "-", "-", "o", "o", "o", "-", "-", "-">>)
    [] button = 2 -> s2t(<<"-", "-", "-", "-", "-", "-", "o", "o", "o">>)

\* The operand of alu.max in mousedown
MaxMask(button) ==
  CASE button = 0 -> s2t(<<"o", "o", "+", "-", "-", "-", "-", "-", "-">>)
    [] button = 1 -> s2t(<<"-", "-", "-", "o", "o", "+", "-", "-", "-">>)
    [] button = 2 -> s2t(<<"-", "-", "-", "-", "-", "-", "o", "o", "+">>)

\* The operand of alu.min in mouseup
MinMask(button) ==
  CASE button = 0 -> s2t(<<"o", "o", "-", "+", "+", "+", "+", "+", "+">>)
    [] button = 1 -> s2t(<<"+", "+", "+", "o", "o", "-", "+", "+", "+">>)
    [] button = 2 -> s2t(<<"+", "+", "+", "+", "+", "+", "o", "o", "-">>)

\* lines 99-111: btn after the branch of the button, if it has one
DownWord(button, btn) ==
  IF button \in {0, 1, 2}
  THEN max(xor(btn, XorMask(button)), MaxMask(button))
  ELSE btn

\* mouseup with the alu.max of mousedown in place of its alu.min
UpWordAsDown(button, btn) == DownWord(button, btn)

\* lines 120-132
UpWord(button, btn) ==
  IF button \in {0, 1, 2}
  THEN min(xor(btn, XorMask(button)), MinMask(button))
  ELSE btn

\* Math.round(((offset / 720) * 2 - 1) * 121.5)
MouseCoordinate(offset) == ((2 * offset - 720) * 243 + 720) \div 1440

\* The part of the constructor that stores in vm.ram (lines 67 and 140), on
\* an ALU whose two open xor entries are any trits
InitMouse ==
  /\ ram = store(store(NewMemory,
                       Tr(s2t(<<"o", "o", "-", "o", "o", "-", "o", "o", "-">>)),
                       Tr(MOUSE_BTN)),
                 Tr(s2t(<<"+", "+", "+", "o", "o", "o", "o", "o", "o">>)),
                 Tr(s2t(<<"o", "o", "o", "-", "+", "-", "-", "-", "-">>)))
  /\ lastEvent = NoEvent
  /\ buttons = {}
  /\ xorPN \in {-1, 0, 1}
  /\ xorNP \in {-1, 0, 1}
  /\ stopped = TRUE
  /\ clock = 0
  /\ timers = {}
  /\ frames = 0
  /\ focus = TRUE
  /\ nextId = 1
  /\ ticks = 0
  /\ drawn = FALSE
  /\ IdleAssembler
  /\ IdleMemory
  /\ IdleCalls

\* lines 69-80
MouseMove(offsetX, offsetY) ==
  /\ ram' = store(store(ram, Num(MouseCoordinate(offsetX)), Tr(MOUSE_X)),
                  Num(MouseCoordinate(offsetY)), Tr(MOUSE_Y))
  /\ lastEvent' = [type |-> "mousemove", button |-> 0, before |-> ram]
  /\ UNCHANGED <<buttons, xorPN, xorNP, loopVars, asmVars, memVars, callVars>>

\* lines 82-114
MouseDown(button) ==
  /\ ram' = store(ram, Tr(DownWord(button, load(ram, Tr(MOUSE_BTN)).word)),
                  Tr(MOUSE_BTN))
  /\ lastEvent' = [type |-> "mousedown", button |-> button, before |-> ram]
  /\ buttons' = buttons \cup {button}
  /\ UNCHANGED <<xorPN, xorNP, loopVars, asmVars, memVars, callVars>>

\* lines 116-135
MouseUp(button) ==
  /\ ram' = store(ram, Tr(UpWord(button, load(ram, Tr(MOUSE_BTN)).word)),
                  Tr(MOUSE_BTN))
  /\ lastEvent' = [type |-> "mouseup", button |-> button, before |-> ram]
  /\ buttons' = buttons \cup {button}
  /\ UNCHANGED <<xorPN, xorNP, loopVars, asmVars, memVars, callVars>>

NextMouse ==
  \/ \E offsetX \in MouseOffsets, offsetY \in MouseOffsets :
       MouseMove(offsetX, offsetY)
  \/ \E button \in MouseButtons : MouseDown(button)
  \/ \E button \in MouseButtons : MouseUp(button)

SpecMouse == InitMouse /\ [][NextMouse]_vars

\* The MOUSE_BTN word of a memory
ButtonWord(block) == load(block, Tr(MOUSE_BTN)).word

\* The value of the trybble of a button in a word: left 0, middle 1, right 2
Trybble(word, button) ==
  digitsToInt(SubSeq(word, 3 * button + 1, 3 * button + 3))

ButtonEvent == lastEvent.type \in {"mousedown", "mouseup"}

\* C16: the toggle scenario.  While all mousedown and mouseup events so far
\* were of one button, left, middle or right, the trybble of that button is
\* +1 right after each mousedown and -1 right after each mouseup, whatever
\* the event before was.
ToggleOneButton ==
  ButtonEvent /\ lastEvent.button \in {0, 1, 2} /\ buttons = {lastEvent.button} =>
    Trybble(ButtonWord(ram), lastEvent.button) =
      IF lastEvent.type = "mousedown" THEN 1 ELSE -1

\* A mouseup of a button that was not down, after events of that button
\* only, that left its trybble at -1
ToggleOneButtonWitness ==
  /\ lastEvent.type = "mouseup"
  /\ lastEvent.button \in {0, 1, 2}
  /\ buttons = {lastEvent.button}
  /\ Trybble(ButtonWord(lastEvent.before), lastEvent.button) = -1
  /\ lastEvent.before # ram
  /\ Trybble(ButtonWord(ram), lastEvent.button) = -1

\* C17: every trybble of MOUSE_BTN is -1 or +1 in every state the mouse
\* events reach.
TrybblesMinusOrPlusOne ==
  \A button \in {0, 1, 2} : Trybble(ButtonWord(ram), button) \in {-1, 1}

\* C18: a mousedown or mouseup leaves the trybbles of the other buttons and
\* every cell but MOUSE_BTN as they were.
OtherButtonsUnchanged ==
  ButtonEvent =>
    /\ \A button \in {0, 1, 2} \ {lastEvent.button} :
         Trybble(ButtonWord(ram), button) =
           Trybble(ButtonWord(lastEvent.before), button)
    /\ \A idx \in (DOMAIN ram \cup DOMAIN lastEvent.before)
                   \ {StoreIndex(Tr(MOUSE_BTN))} :
         BlockGet(ram, idx) = BlockGet(lastEvent.before, idx)

(***************************************************************************)
(* vine.ts: start and stop of VineCanvas, and the host that runs the       *)
(* callbacks they registered.  JavaScript runs one handler at a time, so   *)
(* start, stop and each callback are one step each.  clock = 0 is the      *)
(* undefined clock of a canvas never started; setInterval returns the ids  *)
(* 1, 2, ...                                                               *)
(***************************************************************************)
\* How many times setInterval is called
MaxTimers == 4

\* How many timer ticks are counted between two calls of start or stop
MaxTicks == 6

InitLoop ==
  /\ stopped = TRUE
  /\ clock = 0
  /\ timers = {}
  /\ frames = 0
  /\ focus \in BOOLEAN
  /\ nextId = 1
  /\ ticks = 0
  /\ drawn = FALSE
  /\ ram = NewMemory
  /\ lastEvent = NoEvent
  /\ buttons = {}
  /\ xorPN = 0
  /\ xorNP = 0
  /\ IdleAssembler
  /\ IdleMemory
  /\ IdleCalls

\* clearInterval(this.clock) under if (this.clock)
ClearClock(active) == IF clock # 0 THEN active \ {clock} ELSE active

\* lines 214-227, drawLoop: late is elapsed > fpsInterval, isStopped is
\* this.stopped when the function runs, requested the animation frames
\* requested and not delivered yet
DrawLoop(late, isStopped, requested) ==
  /\ drawn' = (late /\ focus)
  /\ frames' = IF ~isStopped THEN requested + 1 ELSE requested

\* start() without the stop() of line 197
StartNoStop ==
  /\ nextId <= MaxTimers
  /\ clock' = nextId
  /\ timers' = timers \cup {nextId}
  /\ nextId' = nextId + 1
  /\ \E late \in BOOLEAN : DrawLoop(late, stopped, frames)
  /\ stopped' = FALSE
  /\ ticks' = 0
  /\ UNCHANGED <<focus, mouseVars, asmVars, memVars, callVars>>

\* lines 196-232, start(): stop() if running, setInterval, the first
\* drawLoop() call, and only then stopped = false
Start ==
  /\ nextId <= MaxTimers
  /\ clock' = nextId
  /\ timers' = (IF ~stopped THEN ClearClock(timers) ELSE timers) \cup {nextId}
  /\ nextId' = nextId + 1
  /\ \E late \in BOOLEAN :
       DrawLoop(late, IF ~stopped THEN TRUE ELSE stopped, frames)
  /\ stopped' = FALSE
  /\ ticks' = 0
  /\ UNCHANGED <<focus, mouseVars, asmVars, memVars, callVars>>

\* lines 234-237, stop()
Stop ==
  /\ stopped' = TRUE
  /\ timers' = ClearClock(timers)
  /\ ticks' = 0
  /\ UNCHANGED <<clock, frames, focus, nextId, drawn, mouseVars, asmVars,
                 memVars, callVars>>

\* The callbacks the host has to run: the active interval timers, and
\* drawLoop if an animation frame is requested
Callbacks ==
  {[kind |-> "tick", id |-> t] : t \in timers}
    \cup (IF frames > 0 THEN {[kind |-> "frame", id |-> 0]} ELSE {})

\* The host runs a callback: the interval callback of lines 203-209, which
\* steps the machine 500 times if the document has focus, or drawLoop
RunCallback ==
  /\ \E c \in Callbacks :
       IF c.kind = "tick"
       THEN /\ ticks < MaxTicks
            /\ ticks' = IF focus THEN ticks + 1 ELSE ticks
            /\ UNCHANGED <<frames, drawn>>
       ELSE /\ \E late \in BOOLEAN : DrawLoop(late, stopped, frames - 1)
            /\ UNCHANGED ticks
  /\ UNCHANGED <<stopped, clock, timers, focus, nextId, mouseVars, asmVars,
                 memVars, callVars>>

\* The document gains or loses focus
FocusChange ==
  /\ focus' = ~focus
  /\ UNCHANGED <<stopped, clock, timers, frames, nextId, ticks, drawn,
                 mouseVars, asmVars, memVars, callVars>>

NextLoop ==
  \/ Start
  \/ Stop
  \/ RunCallback
  \/ FocusChange

SpecLoop == InitLoop /\ [][NextLoop]_vars

\* C19: the draw loop keeps rescheduling itself.  While the canvas is
\* running, an animation frame is requested, so that drawLoop runs again.
DrawLoopKeepsGoing == ~stopped => frames > 0

\* C20: one interval timer.  At most one interval timer is active, it is
\* the one clock holds, one is active exactly when stopped is false, and
\* while the canvas is stopped no timer tick has stepped the machine since
\* stop() returned.
OneIntervalTimer ==
  /\ Cardinality(timers) <= 1
  /\ timers # {} <=> ~stopped
  /\ ~stopped => timers = {clock}
  /\ stopped => ticks = 0

\* A canvas started a second time while running, whose second timer, the
\* only one, has stepped the machine
OneIntervalTimerWitness ==
  /\ ~stopped
  /\ clock = 2
  /\ timers = {2}
  /\ ticks > 0

====
